---- MODULE Spec2Model ----
(***************************************************************************)
(* A model of llmwrappers, in three parts, each with its own               *)
(* specification:                                                          *)
(*   - the backend pool (LLMEngine, llm_engine.py): selection by           *)
(*     rate-limit hint, the retry loop of the async wrapper, the           *)
(*     per-backend backoff counts and the eviction of failing backends,    *)
(*     under callers that share one engine on one asyncio event loop       *)
(*     (Spec, SpecSequential, SpecOperations);                             *)
(*   - the hook layers (LLMDecorator, llm_decorator.py): one call through  *)
(*     a stack of layers around a backend (SpecLayers);                    *)
(*   - the chat orchestrator (OAIWrapper.query, oai_wrapper.py): one query *)
(*     with its round-trips, tool rounds and finish reasons (SpecQuery).   *)
(*                                                                         *)
(* asyncio is cooperative: code between two awaits runs without            *)
(* interleaving.  Every action of the pool is one such run of a coroutine, *)
(* from the point where it is resumed to its next await (asyncio.sleep, or *)
(* the backend call) or to its end.                                        *)
(***************************************************************************)
EXTENDS Integers, Sequences, FiniteSets, TLC

\* ------------------------------------------------------------------ bounds
\* max_retries is a constructor argument; the model draws it from 0..MaxRetriesBound.
MaxRetriesBound == 1
\* Calls started on the engine (attribute lookups) over one behaviour.
MaxCalls == 3

\* The backends that may be given to the constructor, in the order in which the
\* constructor's list holds them.  Backends are interchangeable but for that order.
BackendList == <<"b1", "b2">>
Backends == {BackendList[k] : k \in 1..Len(BackendList)}
\* The rate limiter's "next allowed" values: the pool only compares them, and two
\* values give every order and every tie of two backends.
Times == {0, 1}
\* Concurrent callers (asyncio tasks) sharing the engine.  They are interchangeable,
\* so they are numbered in the order in which they make their first call.
CallerOrder == <<"p1", "p2", "p3">>
Procs == {CallerOrder[k] : k \in 1..Len(CallerOrder)}

\* ---------------------------------------------------------------- values
None == [kind |-> "None", val |-> "None"]
\* "No value" of a field that holds a string, such as the name of a backend.
NoString == "None"
\* The value returned by the k-th backend call of a call: every backend call
\* returns its own value or raises its own exception object.
Ok(k) == [kind |-> "ok", val |-> k]
\* The exception raised by the k-th backend call of a call.
BackendError(k) == [kind |-> "error", val |-> k]
\* Exception("No wrappers available"), raised by select_wrapper.
NoWrappers == [kind |-> "Exception", val |-> "No wrappers available"]
\* list.remove(x) with x not in the list.
ValueError == [kind |-> "ValueError", val |-> "list.remove(x): x not in list"]
\* _backoffs[selection] with no entry for the selection.
KeyError == [kind |-> "KeyError", val |-> "selection"]
\* raise None
TypeError == [kind |-> "TypeError", val |-> "exceptions must derive from BaseException"]

VARIABLES
    max_retries,     \* the constructor's max_retries (_max_retries)
    wrappers,        \* self.wrappers: the list given to the constructor
    _wrappers,       \* the pooled backends, a list
    _backoffs,       \* backend -> failure count, -1 is healthy
    next_allowed,    \* backend -> rate_limit.next_allowed(), owned by the rate limiter
    pc,              \* caller -> where its coroutine is suspended
    selection,       \* caller -> the local `selection`
    i,               \* caller -> iterations of the retry loop begun by its call
    last_exception,  \* caller -> the local `last_exception`
    outcome,         \* caller -> what its call returned or raised, once done
    reply,           \* caller -> what its latest backend call returned or raised
    attempts,        \* caller -> backend calls started by its call
    streak,          \* backend -> failures since its last success or construction
    calls,           \* calls started so far
    \* --- one call through a stack of hook layers (LLMDecorator) ---
    hooks,           \* the hook_query implementation of each layer, outermost first
    op,              \* the operation the caller invoked
    kwargs,          \* the caller's keyword arguments
    level,           \* where control is: 0 the caller, k layer k, Len(hooks) + 1 the backend
    phase,           \* what is under way at `level`
    args,            \* level -> the keyword arguments that level was called with
    result,          \* layer -> query_stream's local list `result`
    value,           \* what is being handed upwards: a chunk, a result or an exception
    log,             \* what has happened in this call, in order
    chunks,          \* the chunks the caller has received
    returned,        \* what the caller's call returned or raised, once over
    \* --- one query of the chat orchestrator (OAIWrapper.query) ---
    config,          \* what the caller passed: stream, tools, call_limit
    call_limit,      \* the local `call_limit`
    messages,        \* api_args["messages"]
    at,              \* where the query is suspended
    yielded,         \* what the query has yielded to its caller
    raised,          \* the exception the query raised
    history,         \* the backend's turns of this query and what each led to, in order
    \* --- one streamed turn, chunk by chunk (the loops over the stream) ---
    branch,          \* which loop reads the stream: "plain" or "collect"
    reading,         \* whether the stream is open or has ended
    received,        \* the chunks the stream has delivered
    collecting,      \* the locals of collect_response
    collected,       \* what collect_response returned
    relayed,         \* what the plain loop has yielded
    tokens_consumed, \* metrics.tokens_consumed
    \* --- the backends themselves ---
    reliable         \* the backends whose calls always return; {} when any call may fail

poolVars == <<max_retries, wrappers, _wrappers, _backoffs, next_allowed, pc, selection,
              i, last_exception, outcome, reply, attempts, streak, calls>>
layerVars == <<hooks, op, kwargs, level, phase, args, result, value, log, chunks, returned>>
queryVars == <<config, call_limit, messages, at, yielded, raised, history>>
streamVars == <<branch, reading, received, collecting, collected, relayed, tokens_consumed>>
backendVars == <<reliable>>
nonPoolVars == <<layerVars, queryVars, streamVars, backendVars>>
nonLayerVars == <<poolVars, queryVars, streamVars, backendVars>>
nonQueryVars == <<poolVars, layerVars, streamVars, backendVars>>
nonStreamVars == <<poolVars, layerVars, queryVars, backendVars>>

vars == <<poolVars, layerVars, queryVars, streamVars, backendVars>>

\* ------------------------------------------------------------- list helpers
Range(s) == {s[k] : k \in 1..Len(s)}

\* list.remove(x): the list without the first occurrence of x.
RECURSIVE ListRemove(_, _)
ListRemove(s, x) ==
    IF s = <<>> THEN <<>>
    ELSE IF Head(s) = x THEN Tail(s)
    ELSE <<Head(s)>> \o ListRemove(Tail(s), x)

\* sorted(s, key=...): a stable sort, by insertion from the right end.
RECURSIVE InsertSorted(_, _, _)
InsertSorted(x, s, key) ==
    IF s = <<>> THEN <<x>>
    ELSE IF key[x] <= key[Head(s)] THEN <<x>> \o s
    ELSE <<Head(s)>> \o InsertSorted(x, Tail(s), key)

RECURSIVE Sorted(_, _)
Sorted(s, key) ==
    IF s = <<>> THEN <<>>
    ELSE InsertSorted(Head(s), Sorted(Tail(s), key), key)

\* dict with the entry of k set to v; dict without the entry of k.
DictSet(d, k, v) == [x \in DOMAIN d \cup {k} |-> IF x = k THEN v ELSE d[x]]
DictDel(d, k) == [x \in DOMAIN d \ {k} |-> d[x]]

\* ------------------------------------------------------------ the engine
\* Mutant: the selection is made over the constructor's list, not over the pool.
select_wrapper_unpooled(ws, na) == Sorted(wrappers, na)[1]

\* Mutant: the selection is the head of the pool, whatever the rate limiter says.
select_wrapper_head(ws, na) == ws[1]

\* select_wrapper() on a non-empty pool: the first element of the pool sorted by
\* next_allowed.
select_wrapper(ws, na) == Sorted(ws, na)[1]

\* Mutant: one iteration too many.
LoopBoundPlusOne == max_retries + 2

\* range(_max_retries + 1)
LoopBound == max_retries + 1

\* Mutant: a success leaves the count as it is.
BackoffsKeptOnSuccess(bo, sel) == bo

\* _backoffs after a successful call on sel.
BackoffsOnSuccess(bo, sel) == DictSet(bo, sel, -1)

\* Mutant: a failure leaves the count as it is.
BackoffsKeptOnFailure(bo, sel) == bo

\* Mutant: a failure lowers the count.
BackoffsDecrement(bo, sel) == DictSet(bo, sel, bo[sel] - 1)

\* _backoffs after `_backoffs[selection] += 1` (the caller checks the entry exists).
BackoffsIncrement(bo, sel) == DictSet(bo, sel, bo[sel] + 1)

\* Mutant: the backend is evicted one failure late.
ReachedLimitLate(bo, sel) == bo[sel] = max_retries + 1

\* Mutant: the backend is evicted one failure early.
ReachedLimitEarly(bo, sel) == bo[sel] = max_retries - 1

\* `_backoffs[selection] == max_retries` after the increment.
ReachedLimit(bo, sel) == bo[sel] = max_retries

\* What `raise last_exception` raises.
RaiseLast(le) == IF le = None THEN TypeError ELSE le

\* Mutant: the loop sleeps only before a backend that has failed twice or more.
LoopFromSleepingLate(idx, ws, bo, le) ==
    IF idx >= LoopBound
      THEN [pc |-> "done", selection |-> NoString, i |-> 0, last_exception |-> None,
            outcome |-> RaiseLast(le)]
    ELSE IF Len(ws) = 0
      THEN [pc |-> "done", selection |-> NoString, i |-> 0, last_exception |-> None,
            outcome |-> NoWrappers]
    ELSE LET s == select_wrapper(ws, next_allowed) IN
      IF s \notin DOMAIN bo
        THEN [pc |-> "done", selection |-> NoString, i |-> 0, last_exception |-> None,
              outcome |-> KeyError]
      ELSE IF bo[s] > 0
        THEN [pc |-> "sleep", selection |-> s, i |-> idx + 1, last_exception |-> le,
              outcome |-> None]
      ELSE [pc |-> "call", selection |-> s, i |-> idx + 1, last_exception |-> le,
            outcome |-> None]

\* The retry loop from the head of iteration idx (0-based) to the caller's next
\* await or to the end of the call, over the pool ws and the counts bo, with
\* last_exception = le: where the caller is next, its locals (gone once the
\* coroutine has ended) and what the call raised.
LoopFrom(idx, ws, bo, le) ==
    IF idx >= LoopBound
      THEN [pc |-> "done", selection |-> NoString, i |-> 0, last_exception |-> None,
            outcome |-> RaiseLast(le)]
    ELSE IF Len(ws) = 0
      THEN [pc |-> "done", selection |-> NoString, i |-> 0, last_exception |-> None,
            outcome |-> NoWrappers]
    ELSE LET s == select_wrapper(ws, next_allowed) IN
      IF s \notin DOMAIN bo
        THEN [pc |-> "done", selection |-> NoString, i |-> 0, last_exception |-> None,
              outcome |-> KeyError]
      ELSE IF bo[s] >= 0
        THEN [pc |-> "sleep", selection |-> s, i |-> idx + 1, last_exception |-> le,
              outcome |-> None]
      ELSE [pc |-> "call", selection |-> s, i |-> idx + 1, last_exception |-> le,
            outcome |-> None]

\* The caller's locals after the loop ran on to `nxt`; a backend call that is
\* started counts as an attempt.
Resume(p, nxt) ==
    /\ pc' = [pc EXCEPT ![p] = nxt.pc]
    /\ selection' = [selection EXCEPT ![p] = nxt.selection]
    /\ i' = [i EXCEPT ![p] = nxt.i]
    /\ last_exception' = [last_exception EXCEPT ![p] = nxt.last_exception]
    /\ outcome' = [outcome EXCEPT ![p] = nxt.outcome]
    /\ attempts' = [attempts EXCEPT ![p] = IF nxt.pc = "call" THEN @ + 1 ELSE @]

\* The coroutine of caller p ends with `out`: its locals are gone.
Finish(p, out) ==
    /\ pc' = [pc EXCEPT ![p] = "done"]
    /\ selection' = [selection EXCEPT ![p] = NoString]
    /\ i' = [i EXCEPT ![p] = 0]
    /\ last_exception' = [last_exception EXCEPT ![p] = None]
    /\ outcome' = [outcome EXCEPT ![p] = out]
    /\ UNCHANGED attempts

\* call_limit is None: the local holds no number.
NoLimit == -1

\* No query of the orchestrator is modelled.
NoQuery ==
    /\ config = [stream |-> FALSE, tools |-> FALSE, call_limit |-> NoLimit]
    /\ call_limit = NoLimit
    /\ messages = <<>>
    /\ at = "none"
    /\ yielded = <<>>
    /\ raised = None
    /\ history = <<>>

\* No stream is modelled chunk by chunk.
NoStream ==
    /\ branch = "none"
    /\ reading = "none"
    /\ received = <<>>
    /\ collecting = None
    /\ collected = None
    /\ relayed = <<>>
    /\ tokens_consumed = 0

\* No call through a hook layer is modelled.
NoLayerCall ==
    /\ hooks = <<>>
    /\ op = "none"
    /\ kwargs = <<>>
    /\ level = 0
    /\ phase = "none"
    /\ args = <<>>
    /\ result = <<>>
    /\ value = None
    /\ log = <<>>
    /\ chunks = <<>>
    /\ returned = None

\* The engine as constructed, before any call: a list of distinct backends (a
\* prefix of BackendList, the empty list included), every count healthy.
InitEngine ==
    /\ max_retries \in 0..MaxRetriesBound
    /\ wrappers \in {SubSeq(BackendList, 1, n) : n \in 0..Len(BackendList)}
    /\ _wrappers = wrappers
    /\ _backoffs = [w \in Range(wrappers) |-> -1]
    /\ next_allowed \in [Backends -> Times]
    /\ pc = [p \in Procs |-> "idle"]
    /\ selection = [p \in Procs |-> NoString]
    /\ i = [p \in Procs |-> 0]
    /\ last_exception = [p \in Procs |-> None]
    /\ outcome = [p \in Procs |-> None]
    /\ reply = [p \in Procs |-> None]
    /\ attempts = [p \in Procs |-> 0]
    /\ streak = [b \in Backends |-> 0]
    /\ calls = 0
    /\ NoLayerCall
    /\ NoQuery
    /\ NoStream

\* The engine over backends any of whose calls may return or raise.
Init ==
    /\ InitEngine
    /\ reliable = {}

\* Caller p may start a call: it has none in progress, and the callers before it
\* in CallerOrder have made their first call.
MayCall(p) ==
    /\ pc[p] \in {"idle", "done"}
    /\ \A k \in 1..Len(CallerOrder) :
         \A j \in 1..(k - 1) : CallerOrder[k] = p => pc[CallerOrder[j]] # "idle"

\* engine.<name>: __getattr__ selects a backend to look the attribute up, and for
\* a coroutine function returns a fresh retry wrapper.  What the caller's previous
\* call left behind is forgotten.
getattr(p) ==
    /\ MayCall(p)
    /\ calls < MaxCalls
    /\ calls' = calls + 1
    /\ i' = [i EXCEPT ![p] = 0]
    /\ attempts' = [attempts EXCEPT ![p] = 0]
    /\ last_exception' = [last_exception EXCEPT ![p] = None]
    /\ reply' = [reply EXCEPT ![p] = None]
    /\ IF Len(_wrappers) = 0
         THEN /\ pc' = [pc EXCEPT ![p] = "done"]
              /\ outcome' = [outcome EXCEPT ![p] = NoWrappers]
              /\ selection' = [selection EXCEPT ![p] = NoString]
         ELSE /\ pc' = [pc EXCEPT ![p] = "bound"]
              /\ outcome' = [outcome EXCEPT ![p] = None]
              /\ selection' = [selection EXCEPT ![p] = select_wrapper(_wrappers, next_allowed)]
    /\ UNCHANGED <<max_retries, wrappers, _wrappers, _backoffs, next_allowed, streak>>
    /\ UNCHANGED nonPoolVars

\* await wrapper(*args, **kwargs): the coroutine runs from its first line to its
\* first await.
wrapper_start(p) ==
    /\ pc[p] = "bound"
    /\ Resume(p, LoopFrom(0, _wrappers, _backoffs, None))
    /\ UNCHANGED <<max_retries, wrappers, _wrappers, _backoffs, next_allowed,
                   reply, streak, calls>>
    /\ UNCHANGED nonPoolVars

\* asyncio.sleep returns: the backend call of this attempt is started.
sleep_done(p) ==
    /\ pc[p] = "sleep"
    /\ pc' = [pc EXCEPT ![p] = "call"]
    /\ attempts' = [attempts EXCEPT ![p] = @ + 1]
    /\ UNCHANGED <<max_retries, wrappers, _wrappers, _backoffs, next_allowed, selection,
                   i, last_exception, outcome, reply, streak, calls>>
    /\ UNCHANGED nonPoolVars

\* The backend call returns: the try block's two statements.
fn_returns(p) ==
    /\ pc[p] = "call"
    /\ reply' = [reply EXCEPT ![p] = Ok(attempts[p])]
    /\ streak' = [streak EXCEPT ![selection[p]] = 0]
    /\ _backoffs' = BackoffsOnSuccess(_backoffs, selection[p])
    /\ Finish(p, Ok(attempts[p]))
    /\ UNCHANGED <<max_retries, wrappers, _wrappers, next_allowed, calls>>
    /\ UNCHANGED nonPoolVars

\* The backend call raises: the except block, then the loop goes on to the
\* caller's next await or to the end of the call.
fn_raises(p) ==
    /\ pc[p] = "call"
    /\ reply' = [reply EXCEPT ![p] = BackendError(attempts[p])]
    /\ streak' = [streak EXCEPT ![selection[p]] = @ + 1]
    /\ LET sel == selection[p]
           counted == sel \in DOMAIN _backoffs
           bo1 == IF counted THEN BackoffsIncrement(_backoffs, sel) ELSE _backoffs
           evict == counted /\ ReachedLimit(bo1, sel)
       IN IF evict /\ sel \notin Range(_wrappers)
            THEN \* _wrappers.remove(selection) raises inside the except block
                 /\ _backoffs' = bo1
                 /\ _wrappers' = _wrappers
                 /\ Finish(p, ValueError)
            ELSE /\ _wrappers' = IF evict THEN ListRemove(_wrappers, sel) ELSE _wrappers
                 /\ _backoffs' = IF evict THEN DictDel(bo1, sel) ELSE bo1
                 /\ Resume(p, LoopFrom(i[p], _wrappers', _backoffs', BackendError(attempts[p])))
    /\ UNCHANGED <<max_retries, wrappers, next_allowed, calls>>
    /\ UNCHANGED nonPoolVars

\* The external rate limiter changes the backends' next allowed times.
rate_limit_update ==
    /\ \E na \in [Backends -> Times] :
         /\ na # next_allowed
         /\ next_allowed' = na
    /\ UNCHANGED <<max_retries, wrappers, _wrappers, _backoffs, pc, selection, i,
                   last_exception, outcome, reply, attempts, streak, calls>>
    /\ UNCHANGED nonPoolVars

Next ==
    \/ \E p \in Procs : getattr(p)
    \/ \E p \in Procs : wrapper_start(p)
    \/ \E p \in Procs : sleep_done(p)
    \/ \E p \in Procs : fn_returns(p)
    \/ \E p \in Procs : fn_raises(p)
    \/ rate_limit_update

Spec == Init /\ [][Next]_vars

\* One caller at a time: the first caller makes every call, one after the other.
SoleCaller == CallerOrder[1]

NextSequential ==
    \/ getattr(SoleCaller)
    \/ wrapper_start(SoleCaller)
    \/ sleep_done(SoleCaller)
    \/ fn_returns(SoleCaller)
    \/ fn_raises(SoleCaller)
    \/ rate_limit_update

SpecSequential == Init /\ [][NextSequential]_vars

\* engine.query_stream: the backend's query_stream is an async generator
\* function, for which inspect.iscoroutinefunction is False, so __getattr__ hands
\* the selected backend's own bound method to the caller, who calls it.
getattr_direct(p) ==
    /\ MayCall(p)
    /\ calls < MaxCalls
    /\ calls' = calls + 1
    /\ i' = [i EXCEPT ![p] = 0]
    /\ last_exception' = [last_exception EXCEPT ![p] = None]
    /\ reply' = [reply EXCEPT ![p] = None]
    /\ IF Len(_wrappers) = 0
         THEN /\ pc' = [pc EXCEPT ![p] = "done"]
              /\ outcome' = [outcome EXCEPT ![p] = NoWrappers]
              /\ selection' = [selection EXCEPT ![p] = NoString]
              /\ attempts' = [attempts EXCEPT ![p] = 0]
         ELSE /\ pc' = [pc EXCEPT ![p] = "direct"]
              /\ outcome' = [outcome EXCEPT ![p] = None]
              /\ selection' = [selection EXCEPT ![p] = select_wrapper(_wrappers, next_allowed)]
              /\ attempts' = [attempts EXCEPT ![p] = 1]
    /\ UNCHANGED <<max_retries, wrappers, _wrappers, _backoffs, next_allowed, streak>>
    /\ UNCHANGED nonPoolVars

\* The backend's stream, consumed by the caller itself, runs to its end.
direct_returns(p) ==
    /\ pc[p] = "direct"
    /\ reply' = [reply EXCEPT ![p] = Ok(attempts[p])]
    /\ streak' = [streak EXCEPT ![selection[p]] = 0]
    /\ Finish(p, Ok(attempts[p]))
    /\ UNCHANGED <<max_retries, wrappers, _wrappers, _backoffs, next_allowed, calls>>
    /\ UNCHANGED nonPoolVars

\* The backend's stream raises: the error is the caller's, no engine code runs.
direct_raises(p) ==
    /\ pc[p] = "direct"
    /\ reply' = [reply EXCEPT ![p] = BackendError(attempts[p])]
    /\ streak' = [streak EXCEPT ![selection[p]] = @ + 1]
    /\ Finish(p, BackendError(attempts[p]))
    /\ UNCHANGED <<max_retries, wrappers, _wrappers, _backoffs, next_allowed, calls>>
    /\ UNCHANGED nonPoolVars

\* One caller at a time, calling any of the four operations: the three
\* coroutine operations through getattr, query_stream through getattr_direct.
NextOperations ==
    \/ NextSequential
    \/ getattr_direct(SoleCaller)
    \/ direct_returns(SoleCaller)
    \/ direct_raises(SoleCaller)

SpecOperations == Init /\ [][NextOperations]_vars

\* asyncio.CancelledError, a BaseException that is not an Exception.
CancelledError == [kind |-> "CancelledError", val |-> "task cancelled"]

\* The caller's task is cancelled while it is suspended in the backoff sleep
\* or in the backend call: the awaited future is cancelled, and the task is
\* due to be resumed with CancelledError thrown in at its await.
cancel(p) ==
    /\ pc[p] \in {"sleep", "call"}
    /\ pc' = [pc EXCEPT ![p] = IF @ = "sleep" THEN "sleep_cancelled" ELSE "call_cancelled"]
    /\ UNCHANGED <<max_retries, wrappers, _wrappers, _backoffs, next_allowed, selection,
                   i, last_exception, outcome, reply, attempts, streak, calls>>
    /\ UNCHANGED nonPoolVars

\* Mutant: CancelledError thrown in at the backend call is caught by the
\* except clause and counted against the backend.
cancelled_captured(p) ==
    /\ pc[p] \in {"sleep_cancelled", "call_cancelled"}
    /\ _backoffs' = IF pc[p] = "call_cancelled" /\ selection[p] \in DOMAIN _backoffs
                      THEN BackoffsIncrement(_backoffs, selection[p])
                      ELSE _backoffs
    /\ Finish(p, CancelledError)
    /\ UNCHANGED <<max_retries, wrappers, _wrappers, next_allowed, reply, streak, calls>>
    /\ UNCHANGED nonPoolVars

\* The cancelled task is resumed: CancelledError is raised at the sleep, which
\* is outside the try block, or at the backend call, where `except Exception`
\* does not catch it; either way it leaves the wrapper.
cancelled(p) ==
    /\ pc[p] \in {"sleep_cancelled", "call_cancelled"}
    /\ Finish(p, CancelledError)
    /\ UNCHANGED <<max_retries, wrappers, _wrappers, _backoffs, next_allowed, reply,
                   streak, calls>>
    /\ UNCHANGED nonPoolVars

\* One caller at a time, whose calls may be cancelled.
NextCancel ==
    \/ NextSequential
    \/ cancel(SoleCaller)
    \/ cancelled(SoleCaller)

SpecCancel == Init /\ [][NextCancel]_vars

\* The engine over backends of which some, one at least, return from every
\* call and the others raise from every call.
InitReliable ==
    /\ InitEngine
    /\ reliable \in (SUBSET Range(wrappers)) \ {{}}

\* The backend call on a backend that always succeeds returns.
reliable_returns(p) ==
    /\ pc[p] = "call"
    /\ selection[p] \in reliable
    /\ fn_returns(p)

\* The backend call on a backend that always fails raises.
unreliable_raises(p) ==
    /\ pc[p] = "call"
    /\ selection[p] \notin reliable
    /\ fn_raises(p)

\* The steps of the one caller, which makes one call after the other.
CallerStep ==
    \/ getattr(SoleCaller)
    \/ wrapper_start(SoleCaller)
    \/ sleep_done(SoleCaller)
    \/ reliable_returns(SoleCaller)
    \/ unreliable_raises(SoleCaller)

NextReliable ==
    \/ CallerStep
    \/ rate_limit_update

\* Where the caller is in its sequence of calls: every step of the caller
\* changes it.
callerVars == <<pc, i, attempts, calls>>

\* The event loop runs the caller's task whenever it can go on: a sleep ends,
\* a backend call ends, and the caller goes on to its next call.  The rate
\* limiter owes nothing.
SpecReliable == InitReliable /\ [][NextReliable]_vars /\ WF_callerVars(CallerStep)

\* The MRO of each backend's class, most specific class first.
get_mro_hierarchy(b) ==
    IF b = "b1" THEN <<"OpenAIWrapper", "OAIWrapper", "ChatWrapper", "ABC", "object">>
                ELSE <<"AnthropicWrapper", "ChatWrapper", "object">>

\* find_greatest_common_ancestor: the first class of the first object's MRO that
\* is in every object's MRO; ValueError for an empty list.
find_greatest_common_ancestor(objects) ==
    IF Len(objects) = 0 THEN ValueError
    ELSE LET mros == [k \in 1..Len(objects) |-> get_mro_hierarchy(objects[k])]
             common == {c \in Range(mros[1]) : \A k \in 1..Len(objects) : c \in Range(mros[k])}
             first == CHOOSE n \in 1..Len(mros[1]) :
                        /\ mros[1][n] \in common
                        /\ \A m \in 1..(n - 1) : mros[1][m] \notin common
         IN IF common = {} THEN "object" ELSE mros[1][first]

\* engine.get_type(): computed over self.wrappers, the list the constructor got.
get_type == find_greatest_common_ancestor(wrappers)

\* ------------------------------------------------- hook layers (LLMDecorator)
\* One call of one operation on a stack of LLMDecorator layers around a backend.
\* Layer 1 is the outermost, layer Len(hooks) wraps the backend.  A call is a
\* chain of coroutines (of async generators for query_stream), so control is at
\* one level at a time; every action is what one level does when control reaches it.

\* Layers stacked around the backend.
MaxDepth == 2
\* Chunks the backend's stream yields before it ends.
MaxChunks == 2

Operations == {"query_response", "query_object", "query_block", "query_stream"}

\* Keyword names are strings, here sequences of characters: lower-case letters,
\* upper-case letters and the underscore, which has no case.
Keys == {<<"Q", "_">>, <<"t">>, <<"T", "t">>, <<"_">>}
\* The layers never look at a keyword's value: each keyword has its own, and a
\* call passes none of the keywords, one of them or all of them.
Keywords == [k \in Keys |-> IF k \in {<<"Q", "_">>, <<"t">>} THEN 1 ELSE 2]
KeywordMappings ==
    {[k \in S |-> Keywords[k]] : S \in {{}, Keys} \cup {{k} : k \in Keys}}

\* str.upper(), character by character.
upper(k) ==
    [n \in 1..Len(k) |-> IF k[n] = "q" THEN "Q" ELSE IF k[n] = "t" THEN "T" ELSE k[n]]

\* {**d1, **d2}
Merge(d1, d2) ==
    [k \in DOMAIN d1 \cup DOMAIN d2 |-> IF k \in DOMAIN d2 THEN d2[k] ELSE d1[k]]

\* _hook_all_args: the two dictionary comprehensions.
prompt_args_initial(kw) == [k \in {x \in DOMAIN kw : upper(x)[1] = x[1]} |-> kw[k]]
prompt_args(kw) == [k \in {x \in DOMAIN kw : x = upper(x)} |-> kw[k]]
api_args(kw) == [k \in {x \in DOMAIN kw : x # upper(x)} |-> kw[k]]

\* The hook_query implementations a layer may have.  "default" is LLMDecorator's
\* own; the others are overrides in a subclass: "rewrite" yields other
\* arguments, "raises" and "raises_runtime" raise once resumed with the
\* response, "two_yield" yields a second time as the docstring lays out.
HookKinds == {"default", "rewrite", "raises", "raises_runtime", "two_yield"}

\* The exceptions of the hook protocol.  A RuntimeError carries the kind of its
\* __cause__.
StopAsyncIteration == [kind |-> "StopAsyncIteration", val |-> "None"]
RuntimeError(cause) == [kind |-> "RuntimeError", val |-> cause]
HookError(k) == [kind |-> "HookError", val |-> k]
\* asend returned the generator's next yield.
Yielded == [kind |-> "yield", val |-> "None"]
\* The caller's `async for` over the stream ends.
EndOfStream == [kind |-> "end", val |-> "None"]

\* hook_query up to its first yield: the arguments it yields.
hook_query_ignored(kind, pa, aa) == Merge(pa, aa)
hook_query(kind, pa, aa) ==
    IF kind = "rewrite" THEN Merge(aa, [k \in {<<"t">>} |-> 2]) ELSE Merge(pa, aa)

\* hook_query resumed with the response: what lifecycle.asend(response) does in
\* _hook_all_args.  A generator that ends raises StopAsyncIteration there.
hook_query_resumed(kind, k) ==
    CASE kind = "raises" -> HookError(k)
      [] kind = "raises_runtime" -> RuntimeError("None")
      [] kind = "two_yield" -> Yielded
      [] OTHER -> StopAsyncIteration

\* An exception leaving the body of an async generator: a StopAsyncIteration
\* becomes a RuntimeError caused by it, any other exception leaves as it is.
async_gen_exit(e) ==
    IF e.kind = "StopAsyncIteration" THEN RuntimeError("StopAsyncIteration") ELSE e

\* _hook_all_args up to its yield: what the layer's first asend returns.
_hook_all_args_unhooked(kind, kw) == kw
_hook_all_args(kind, kw) == hook_query(kind, prompt_args(kw), api_args(kw))

\* _hook_all_args resumed with the result: what the layer's second asend raises.
\* When the hook yielded again the body ends, which ends the generator.
_hook_all_args_resumed_unconverted(kind, k) == hook_query_resumed(kind, k)
_hook_all_args_resumed(kind, k) ==
    LET r == hook_query_resumed(kind, k)
    IN IF r = Yielded THEN StopAsyncIteration ELSE async_gen_exit(r)

\* The layer's try/except around its second asend, then `return result`: what
\* the layer returns or raises.  query_stream is itself an async generator.
after_phase_swallowing(o, kind, k, res) == res
after_phase(o, kind, k, res) ==
    LET e == _hook_all_args_resumed(kind, k)
    IN IF e.kind = "RuntimeError" /\ e.val = "StopAsyncIteration" THEN res
       ELSE IF o = "query_stream" THEN async_gen_exit(e)
       ELSE e

\* "".join(result)
JoinLast(cs) == IF cs = <<>> THEN <<>> ELSE cs[Len(cs)]
RECURSIVE Join(_)
Join(cs) == IF cs = <<>> THEN <<>> ELSE Head(cs) \o Join(Tail(cs))

\* The chunks a backend's stream may yield.
Chunks == {<<"a">>, <<"b">>}

Event(e, k, d) == [ev |-> e, layer |-> k, data |-> d]
\* Mutant: the backend is taken to be where the innermost layer is.
BackendShallow == Len(hooks)
\* The level of the backend, below the innermost layer.
Backend == Len(hooks) + 1

\* No engine is modelled.
NoPool ==
    /\ max_retries = 0
    /\ wrappers = <<>>
    /\ _wrappers = <<>>
    /\ _backoffs = <<>>
    /\ next_allowed = [b \in Backends |-> 0]
    /\ pc = [p \in Procs |-> "idle"]
    /\ selection = [p \in Procs |-> NoString]
    /\ i = [p \in Procs |-> 0]
    /\ last_exception = [p \in Procs |-> None]
    /\ outcome = [p \in Procs |-> None]
    /\ reply = [p \in Procs |-> None]
    /\ attempts = [p \in Procs |-> 0]
    /\ streak = [b \in Backends |-> 0]
    /\ calls = 0
    /\ reliable = {}

\* A stack of layers as constructed, each with its hook_query, before the call.
InitLayers ==
    /\ NoPool
    /\ NoQuery
    /\ NoStream
    /\ hooks \in UNION {[1..n -> HookKinds] : n \in 0..MaxDepth}
    /\ op = "none"
    /\ kwargs = <<>>
    /\ level = 0
    /\ phase = "idle"
    /\ args = <<>>
    /\ result = [k \in 1..Len(hooks) |-> <<>>]
    /\ value = None
    /\ log = <<>>
    /\ chunks = <<>>
    /\ returned = None

\* The caller invokes an operation of the outermost surface.
query ==
    /\ phase = "idle"
    /\ \E o \in Operations, kw \in KeywordMappings :
         /\ op' = o
         /\ kwargs' = kw
         /\ args' = <<kw>>
    /\ level' = 1
    /\ phase' = "enter"
    /\ UNCHANGED <<hooks, result, value, log, chunks, returned, nonLayerVars>>

\* Layer `level` is entered: _hook_all_args partitions the keywords and runs the
\* hook to its first yield, and the layer calls the same operation of its
\* underlying_llm with what came back.
layer_before ==
    /\ phase = "enter"
    /\ level <= Len(hooks)
    /\ LET new_kwargs == hook_query(hooks[level], prompt_args(args[level]), api_args(args[level]))
           passed == _hook_all_args(hooks[level], args[level])
       IN /\ args' = Append(args, passed)
          /\ log' = log \o <<Event("before", level, new_kwargs),
                             Event("inner", level, [op |-> op, kwargs |-> passed])>>
    /\ level' = level + 1
    /\ UNCHANGED <<hooks, op, kwargs, phase, result, value, chunks, returned, nonLayerVars>>

\* The backend's operation is called.
backend_called ==
    /\ phase = "enter"
    /\ level = Backend
    /\ log' = Append(log, Event("backend", level, [op |-> op, kwargs |-> args[level]]))
    /\ phase' = "running"
    /\ UNCHANGED <<hooks, op, kwargs, level, args, result, value, chunks, returned, nonLayerVars>>

\* The backend's coroutine returns its result.
backend_returns ==
    /\ phase = "running"
    /\ op # "query_stream"
    /\ value' = Ok(1)
    /\ log' = Append(log, Event("reply", level, Ok(1)))
    /\ level' = level - 1
    /\ phase' = "return"
    /\ UNCHANGED <<hooks, op, kwargs, args, result, chunks, returned, nonLayerVars>>

\* The backend raises, for a stream after any number of chunks.
backend_raises ==
    /\ phase = "running"
    /\ value' = BackendError(1)
    /\ log' = Append(log, Event("reply", level, BackendError(1)))
    /\ level' = level - 1
    /\ phase' = "return"
    /\ UNCHANGED <<hooks, op, kwargs, args, result, chunks, returned, nonLayerVars>>

\* The backend's stream yields a chunk.
backend_yields ==
    /\ phase = "running"
    /\ op = "query_stream"
    /\ Len(chunks) < MaxChunks
    /\ \E c \in Chunks :
         /\ value' = c
         /\ log' = Append(log, Event("chunk", level, c))
    /\ level' = level - 1
    /\ phase' = "chunk"
    /\ UNCHANGED <<hooks, op, kwargs, args, result, chunks, returned, nonLayerVars>>

\* The backend's stream ends.
backend_ends ==
    /\ phase = "running"
    /\ op = "query_stream"
    /\ value' = EndOfStream
    /\ log' = Append(log, Event("reply", level, EndOfStream))
    /\ level' = level - 1
    /\ phase' = "return"
    /\ UNCHANGED <<hooks, op, kwargs, args, result, chunks, returned, nonLayerVars>>

\* query_stream's loop body in layer `level`: result.append(chunk); yield chunk.
layer_yields ==
    /\ phase = "chunk"
    /\ level >= 1
    /\ result' = [result EXCEPT ![level] = Append(@, value)]
    /\ log' = Append(log, Event("yield", level, value))
    /\ level' = level - 1
    /\ UNCHANGED <<hooks, op, kwargs, phase, args, value, chunks, returned, nonLayerVars>>

\* The caller's loop gets the chunk and asks for the next one, which resumes
\* every layer's loop down to the backend's stream.
caller_receives ==
    /\ phase = "chunk"
    /\ level = 0
    /\ chunks' = Append(chunks, value)
    /\ value' = None
    /\ level' = Backend
    /\ phase' = "running"
    /\ UNCHANGED <<hooks, op, kwargs, args, result, log, returned, nonLayerVars>>

\* The inner call of layer `level` returned, or its stream ended: the after
\* phase, with the result or the joined chunks.
layer_after ==
    /\ phase = "return"
    /\ level >= 1
    /\ value.kind \in {"ok", "end"}
    /\ log' = Append(log, Event("after", level,
                                IF op = "query_stream" THEN Join(result[level]) ELSE value))
    /\ value' = after_phase(op, hooks[level], level, value)
    /\ level' = level - 1
    /\ UNCHANGED <<hooks, op, kwargs, phase, args, result, chunks, returned, nonLayerVars>>

\* Mutant: the layer resumes its hook with the error of its inner call.
layer_raises_resuming ==
    /\ phase = "return"
    /\ level >= 1
    /\ value.kind \notin {"ok", "end"}
    /\ log' = Append(log, Event("after", level, value))
    /\ level' = level - 1
    /\ UNCHANGED <<hooks, op, kwargs, phase, args, result, value, chunks, returned, nonLayerVars>>

\* The inner call of layer `level` raised: nothing in the layer catches it.
layer_raises ==
    /\ phase = "return"
    /\ level >= 1
    /\ value.kind \notin {"ok", "end"}
    /\ value' = IF op = "query_stream" THEN async_gen_exit(value) ELSE value
    /\ level' = level - 1
    /\ UNCHANGED <<hooks, op, kwargs, phase, args, result, log, chunks, returned, nonLayerVars>>

\* The caller's call is over.
caller_returns ==
    /\ phase = "return"
    /\ level = 0
    /\ returned' = value
    /\ phase' = "done"
    /\ UNCHANGED <<hooks, op, kwargs, level, args, result, value, log, chunks, nonLayerVars>>

NextLayers ==
    \/ query
    \/ layer_before
    \/ backend_called
    \/ backend_returns
    \/ backend_raises
    \/ backend_yields
    \/ backend_ends
    \/ layer_yields
    \/ caller_receives
    \/ layer_after
    \/ layer_raises
    \/ caller_returns

SpecLayers == InitLayers /\ [][NextLayers]_vars

\* ------------------------------------------- chat orchestrator (OAIWrapper.query)
\* One query: round-trips to the backend (self.create) until a turn ends the
\* conversation, the tool calls of a tool_calls turn being run in between.  The
\* query is one task, so an action is what the query does with one turn of the
\* backend: from the return of create, or the end of its stream, to the next
\* call of create or to the end of the query.

\* The caller's call_limit, when it gives one.
MaxLimit == 2
\* Round-trips of one query: the backend's last turn then asks for no tools.
MaxRoundTrips == 3

FinishReasons == {"stop", "eos", "length", "content_filter", "tool_calls", "function_call"}

\* The tools the caller passed, by name, when it passed any.
Registered == {"f"}

\* Argument text is a string of the characters { and }; json.loads accepts the
\* empty object and raises on everything else.
json_loads_raises(arguments) == arguments # <<"{", "}">>

ToolCall(id, name, arguments) == [id |-> id, name |-> name, arguments |-> arguments]

\* What a tool_calls turn may ask for: a registered tool, an unregistered one,
\* a registered one with argument text that is not JSON.
ToolCallLists ==
    LET a == ToolCall("c1", "f", <<"{", "}">>)
        b == ToolCall("c2", "g", <<"{", "}">>)
        c == ToolCall("c3", "f", <<"{">>)
    IN {<<>>, <<a>>, <<b>>, <<c>>, <<a, b>>, <<a, c>>, <<c, a>>}

\* ChatCompletion, a non-streamed turn: choices[0].finish_reason,
\* choices[0].message.content and choices[0].message.tool_calls.
Responses ==
    {[finish_reason |-> f, content |-> c, tool_calls |-> <<>>] :
        f \in FinishReasons \ {"tool_calls"}, c \in {<<>>, <<"h", "i">>}}
    \cup {[finish_reason |-> "tool_calls", content |-> c, tool_calls |-> tc] :
        c \in {<<>>, <<"h", "i">>}, tc \in ToolCallLists}

\* A chunk of a streamed turn: choices[0].delta.content, choices[0].finish_reason
\* and choices[0].delta.tool_calls.  A fragment of a tool call has an id and a
\* name when it opens the call, and a piece of the argument text.
Chunk(content, finish_reason, tool_calls) ==
    [content |-> content, finish_reason |-> finish_reason, tool_calls |-> tool_calls,
     usage |-> None]

\* The chunk that include_usage adds to a stream: no choices, the usage totals.
UsageChunk(total_tokens) ==
    [content |-> <<>>, finish_reason |-> NoString, tool_calls |-> <<>>,
     usage |-> [total_tokens |-> total_tokens]]

\* A streamed turn: chunks of text, chunks with one tool call fragment each,
\* and a last chunk with the finish reason, if the stream has one.
StreamOf(texts, fragments, finish_reason) ==
    [n \in 1..Len(texts) |-> Chunk(texts[n], NoString, <<>>)]
        \o [n \in 1..Len(fragments) |-> Chunk(<<>>, NoString, <<fragments[n]>>)]
        \o <<Chunk(<<>>, finish_reason, <<>>)>>

\* The fragment sequences of the streamed tool_calls turns: no call, a call
\* opened with empty argument text and continued, a call whose opening
\* fragment has the whole argument text, two calls.
FragmentLists ==
    LET open1 == ToolCall("c1", "f", <<>>)
        open2 == ToolCall("c2", "g", <<>>)
        whole == ToolCall("c1", "f", <<"{", "}">>)
        piece1 == ToolCall(NoString, NoString, <<"{">>)
        piece2 == ToolCall(NoString, NoString, <<"}">>)
        piece == ToolCall(NoString, NoString, <<"{", "}">>)
    IN {<<>>, <<open1, piece1, piece2>>, <<whole>>, <<open1, piece, open2, piece>>}

Streams ==
    {StreamOf(ts, <<>>, f) :
        ts \in {<<>>, <<<<"h">>, <<>>, <<"i">>>>}, f \in FinishReasons \cup {NoString}}
    \cup {StreamOf(ts, fs, "tool_calls") :
        ts \in {<<>>, <<<<"h">>>>}, fs \in FragmentLists}

\* The messages of the conversation.
UserMessage ==
    [role |-> "user", tool_calls |-> <<>>, name |-> NoString,
     tool_call_id |-> NoString, content |-> "prompt"]
AssistantMessage(tool_calls) ==
    [role |-> "assistant", tool_calls |-> tool_calls, name |-> NoString,
     tool_call_id |-> NoString, content |-> NoString]
ToolMessage(tool_call, content) ==
    [role |-> "tool", tool_calls |-> <<>>, name |-> tool_call.name,
     tool_call_id |-> tool_call.id, content |-> content]

\* The exceptions of the orchestrator.
ToolCallLimit == [kind |-> "Exception", val |-> "Tool call limit exceeded"]
ContextWindow ==
    [kind |-> "Exception", val |-> "The conversation was too long for the context window."]
ContentFiltered ==
    [kind |-> "Exception", val |-> "Content was filtered due to policy violations."]
UnexpectedFinish == [kind |-> "Exception", val |-> "Unexpected API finish_reason:"]
JSONDecodeError == [kind |-> "JSONDecodeError", val |-> "arguments"]

\* collect_response, the body of the inner loop: one fragment of a tool call.
collect_tool_call(acc, tc) ==
    LET opens == tc.id # NoString
        changes == opens /\ tc.id # acc.current_tool_id /\ acc.current_tool_id # NoString
        name == IF opens THEN tc.name ELSE acc.current_tool_name
        arguments == IF opens THEN <<tc.arguments>> ELSE acc.current_tool_args
    IN [acc EXCEPT
          !.tool_calls = IF changes
                           THEN Append(@, ToolCall(acc.current_tool_id, acc.current_tool_name,
                                                   Join(acc.current_tool_args)))
                           ELSE @,
          !.current_tool_id = IF opens THEN tc.id ELSE @,
          !.current_tool_name = IF name # NoString THEN name ELSE tc.name,
          !.current_tool_args = Append(arguments, tc.arguments)]

RECURSIVE collect_tool_calls(_, _)
collect_tool_calls(acc, tcs) ==
    IF tcs = <<>> THEN acc
    ELSE collect_tool_calls(collect_tool_call(acc, Head(tcs)), Tail(tcs))

\* collect_response, the body of the loop over the stream, less the metrics.
collect_chunk(acc, chunk) ==
    collect_tool_calls(
        [acc EXCEPT
           !.result = IF chunk.content # <<>> THEN Append(@, chunk.content) ELSE @,
           !.finish_reason = IF @ # NoString THEN @ ELSE chunk.finish_reason],
        chunk.tool_calls)

RECURSIVE collect_chunks(_, _)
collect_chunks(acc, stream) ==
    IF stream = <<>> THEN acc
    ELSE collect_chunks(collect_chunk(acc, Head(stream)), Tail(stream))

\* collect_response, its locals before the loop.
collect_locals ==
    [result |-> <<>>, finish_reason |-> NoString, tool_calls |-> <<>>,
     current_tool_id |-> NoString, current_tool_name |-> NoString,
     current_tool_args |-> <<>>]

\* Mutant: the tool call still open at the end of the stream is dropped.
collect_finalize_dropping(acc) == acc

\* collect_response, after the loop: the tool call still open is finalized.
collect_finalize(acc) ==
    [acc EXCEPT
       !.tool_calls = IF acc.current_tool_id # NoString
                        THEN Append(@, ToolCall(acc.current_tool_id, acc.current_tool_name,
                                                Join(acc.current_tool_args)))
                        ELSE @]

\* collect_response, its return: the tool calls of a tool_calls turn, else the text.
collect_return(acc) ==
    IF acc.finish_reason = "tool_calls"
      THEN [response |-> acc.tool_calls, finish_reason |-> acc.finish_reason]
      ELSE [response |-> Join(acc.result), finish_reason |-> acc.finish_reason]

\* collect_response(stream) on a stream read to its end.
collect_response(stream) ==
    collect_return(collect_finalize(collect_chunks(collect_locals, stream)))

\* handle_tool_call from its j-th tool call on.  runs[j] is what the tool does
\* when it is called; `ran` lists the calls for which a tool was looked up.
RECURSIVE handle_tool_call_from(_, _, _, _, _, _)
handle_tool_call_from(j, msgs, tool_calls, runs, registry, ran) ==
    IF j > Len(tool_calls) THEN [messages |-> msgs, raised |-> None, ran |-> ran]
    ELSE LET tc == tool_calls[j]
             done == tc.name \in registry /\ runs[j] = "returns"
             content == IF done THEN "result" ELSE "Error, did not complete successfully"
         IN IF json_loads_raises(tc.arguments)
              THEN [messages |-> msgs, raised |-> JSONDecodeError, ran |-> ran]
              ELSE handle_tool_call_from(j + 1, Append(msgs, ToolMessage(tc, content)),
                                         tool_calls, runs, registry, Append(ran, tc.id))

\* handle_tool_call up to its call of create: the conversation extended, or
\* the exception that ended it.
handle_tool_call(msgs, tool_calls, runs, registry) ==
    handle_tool_call_from(1, Append(msgs, AssistantMessage(tool_calls)),
                          tool_calls, runs, registry, <<>>)

\* What one turn makes of the query: where it is then, its locals, what it
\* yields and raises, and the tool calls it processed.
Outcome(a, limit, msgs, ys, exc, ran) ==
    [at |-> a, call_limit |-> limit, messages |-> msgs, yielded |-> ys, raised |-> exc,
     ran |-> ran]

\* The tool loop's check of the limit: no limit, or some of it left.
MayCallTools(limit) == limit = NoLimit \/ limit > 0

\* Mutant: the limit is lowered by the number of tool calls of the round.
ToolRoundPerCall(limit, msgs, tool_calls, runs, registry) ==
    IF limit # NoLimit /\ limit <= 0
      THEN Outcome("done", limit, msgs, <<>>, ToolCallLimit, <<>>)
    ELSE LET left == IF limit = NoLimit THEN limit ELSE limit - Len(tool_calls)
             h == handle_tool_call(msgs, tool_calls, runs, registry)
         IN IF h.raised # None
              THEN Outcome("done", left, h.messages, <<>>, h.raised, h.ran)
              ELSE Outcome("create", left, h.messages, <<>>, None, h.ran)

\* One iteration of the while loop, the same in both branches: the limit is
\* checked and lowered, then the tool calls are handled and create is called.
ToolRound(limit, msgs, tool_calls, runs, registry) ==
    IF ~MayCallTools(limit) THEN Outcome("done", limit, msgs, <<>>, ToolCallLimit, <<>>)
    ELSE LET left == IF limit = NoLimit THEN limit ELSE limit - 1
             h == handle_tool_call(msgs, tool_calls, runs, registry)
         IN IF h.raised # None
              THEN Outcome("done", left, h.messages, <<>>, h.raised, h.ran)
              ELSE Outcome("create", left, h.messages, <<>>, None, h.ran)

\* The branch without streaming, from the return of create.
after_create_lenient(response, limit, msgs, runs, registry) ==
    IF response.finish_reason = "tool_calls"
      THEN ToolRound(limit, msgs, response.tool_calls, runs, registry)
      ELSE Outcome("done", limit, msgs, <<response.content>>, None, <<>>)
after_create(response, limit, msgs, runs, registry) ==
    LET f == response.finish_reason
    IN IF f = "tool_calls" THEN ToolRound(limit, msgs, response.tool_calls, runs, registry)
       ELSE IF f = "length" THEN Outcome("done", limit, msgs, <<>>, ContextWindow, <<>>)
       ELSE IF f = "content_filter" THEN Outcome("done", limit, msgs, <<>>, ContentFiltered, <<>>)
       ELSE IF f \in {"stop", "eos"} THEN Outcome("done", limit, msgs, <<response.content>>, None, <<>>)
       ELSE Outcome("done", limit, msgs, <<>>, UnexpectedFinish, <<>>)

\* The streaming branch with tools, from the end of the stream.
after_collect(stream, limit, msgs, runs, registry) ==
    LET c == collect_response(stream)
        f == c.finish_reason
    IN IF f = "tool_calls" THEN ToolRound(limit, msgs, c.response, runs, registry)
       ELSE IF f = "length" THEN Outcome("done", limit, msgs, <<>>, ContextWindow, <<>>)
       ELSE IF f = "content_filter" THEN Outcome("done", limit, msgs, <<>>, ContentFiltered, <<>>)
       ELSE IF f \in {"stop", "eos"} THEN Outcome("done", limit, msgs, <<c.response>>, None, <<>>)
       ELSE Outcome("done", limit, msgs, <<>>, UnexpectedFinish, <<>>)

\* The streaming branch without tools: every chunk's text that is not empty is
\* yielded, and the finish reason is not looked at.
after_stream(stream, limit, msgs) ==
    LET texts == SelectSeq(stream, LAMBDA chunk : chunk.content # <<>>)
    IN Outcome("done", limit, msgs, [n \in 1..Len(texts) |-> texts[n].content], None, <<>>)

\* The finish reason and the text the backend sent in a streamed turn.
FinishOf(stream) == stream[Len(stream)].finish_reason
TextOf(stream) == Join([n \in 1..Len(stream) |-> stream[n].content])

\* A turn of the backend as it goes into the history, with what came of it:
\* the chunks of a streamed turn, what each tool of the round did when called,
\* the limit and the conversation before the turn and the conversation after.
Turn(f, text, requested, stream, runs, o) ==
    [finish_reason |-> f, content |-> text, requested |-> requested,
     chunks |-> stream, runs |-> runs,
     limit |-> call_limit, before |-> messages, ran |-> o.ran, raised |-> o.raised,
     yielded |-> o.yielded, after |-> o.messages]

\* The query's variables after a turn.
Becomes(o, t) ==
    /\ at' = o.at
    /\ call_limit' = o.call_limit
    /\ messages' = o.messages
    /\ yielded' = yielded \o o.yielded
    /\ raised' = o.raised
    /\ history' = Append(history, t)
    /\ UNCHANGED config

\* The backend may ask for tools in this round-trip.
MayAskForTools == Len(history) + 1 < MaxRoundTrips

\* What each tool of a round does when called.
Runs(tool_calls) == [1..Len(tool_calls) -> {"returns", "raises"}]

\* No query has been made: a wrapper as constructed.
InitQuery ==
    /\ NoPool
    /\ NoLayerCall
    /\ NoStream
    /\ config = [stream |-> FALSE, tools |-> FALSE, call_limit |-> NoLimit]
    /\ call_limit = NoLimit
    /\ messages = <<>>
    /\ at = "idle"
    /\ yielded = <<>>
    /\ raised = None
    /\ history = <<>>

\* query(...) up to its first call of create, with a conversation to send.
oai_query ==
    /\ at = "idle"
    /\ \E s \in BOOLEAN, t \in BOOLEAN, limit \in {NoLimit} \cup 0..MaxLimit :
         /\ config' = [stream |-> s, tools |-> t, call_limit |-> limit]
         /\ call_limit' = limit
    /\ messages' = <<UserMessage>>
    /\ at' = "create"
    /\ UNCHANGED <<yielded, raised, history, nonQueryVars>>

\* create returns a ChatCompletion.
create_returns ==
    /\ at = "create"
    /\ ~config.stream
    /\ \E response \in Responses :
         /\ response.finish_reason = "tool_calls" => MayAskForTools
         /\ \E runs \in Runs(response.tool_calls) :
              LET o == after_create(response, call_limit, messages, runs,
                                    IF config.tools THEN Registered ELSE {})
              IN Becomes(o, Turn(response.finish_reason, response.content,
                                 Len(response.tool_calls), <<>>, runs, o))
    /\ UNCHANGED nonQueryVars

\* create returns a stream, which the query relays chunk by chunk to its end.
stream_relayed ==
    /\ at = "create"
    /\ config.stream
    /\ ~config.tools
    /\ \E stream \in Streams :
         LET o == after_stream(stream, call_limit, messages)
         IN Becomes(o, Turn(FinishOf(stream), TextOf(stream), 0, stream, <<>>, o))
    /\ UNCHANGED nonQueryVars

\* create returns a stream, which collect_response reads to its end.
stream_collected ==
    /\ at = "create"
    /\ config.stream
    /\ config.tools
    /\ \E stream \in Streams :
         /\ FinishOf(stream) = "tool_calls" => MayAskForTools
         /\ LET c == collect_response(stream)
                n == IF c.finish_reason = "tool_calls" THEN Len(c.response) ELSE 0
            IN \E runs \in [1..n -> {"returns", "raises"}] :
                 LET o == after_collect(stream, call_limit, messages, runs, Registered)
                 IN Becomes(o, Turn(FinishOf(stream), TextOf(stream), n, stream, runs, o))
    /\ UNCHANGED nonQueryVars

NextQuery ==
    \/ oai_query
    \/ create_returns
    \/ stream_relayed
    \/ stream_collected

SpecQuery == InitQuery /\ [][NextQuery]_vars

\* ------------------------------------------------------------ a streamed turn
\* The two loops over a stream, one action per chunk: the plain loop of the
\* branch without tools, which yields text as it arrives, and the loop of
\* collect_response.  Both keep metrics.tokens_consumed.

\* Chunks read from one stream.
MaxStream == 3

\* The totals a chunk with usage reports.
UsageTotals == {7}

\* The fragments of tool calls: with the id and name of a call or with
\* neither, and with a piece of argument text or an empty one.
Fragments ==
    {ToolCall(id.id, id.name, a) :
        id \in {[id |-> NoString, name |-> NoString], [id |-> "c1", name |-> "f"],
                [id |-> "c2", name |-> "g"]},
        a \in {<<>>, <<"{">>, <<"}">>}}

\* The chunks a stream is made of: two texts, an empty delta, a finish reason,
\* the usage totals, one fragment of a tool call, two fragments opening two
\* calls.
StreamChunks ==
    {Chunk(<<"h">>, NoString, <<>>), Chunk(<<"i">>, NoString, <<>>),
     Chunk(<<>>, NoString, <<>>),
     Chunk(<<>>, "tool_calls", <<>>), Chunk(<<>>, "stop", <<>>)}
    \cup {UsageChunk(t) : t \in UsageTotals}
    \cup {Chunk(<<>>, NoString, <<fr>>) : fr \in Fragments}
    \cup {Chunk(<<>>, NoString, <<ToolCall("c1", "f", <<>>), ToolCall("c2", "g", <<>>)>>)}

\* metrics.tokens_consumed after a chunk, in collect_response.
collect_tokens(tokens, chunk) ==
    IF chunk.usage # None THEN tokens + chunk.usage.total_tokens ELSE tokens + 1

\* metrics.tokens_consumed after a chunk, in the plain loop.
stream_tokens(tokens, chunk) ==
    IF chunk.usage # None THEN chunk.usage.total_tokens ELSE tokens + 1

relay_chunk_every(ys, chunk) == Append(ys, chunk.content)

\* What the plain loop has yielded after a chunk: its text, if it has any.
relay_chunk(ys, chunk) == IF chunk.content # <<>> THEN Append(ys, chunk.content) ELSE ys

\* A wrapper with fresh metrics, before create has returned a stream.
InitStream ==
    /\ NoPool
    /\ NoLayerCall
    /\ NoQuery
    /\ branch = "none"
    /\ reading = "idle"
    /\ received = <<>>
    /\ collecting = None
    /\ collected = None
    /\ relayed = <<>>
    /\ tokens_consumed = 0

\* create returns the stream of a turn: to the plain loop when the query has
\* no tools, to collect_response when it has.
stream_opened ==
    /\ reading = "idle"
    /\ \E b \in {"plain", "collect"} :
         /\ branch' = b
         /\ collecting' = IF b = "collect" THEN collect_locals ELSE None
    /\ reading' = "open"
    /\ UNCHANGED <<received, collected, relayed, tokens_consumed, nonStreamVars>>

\* One iteration of the loop of collect_response.
chunk_collected ==
    /\ reading = "open"
    /\ branch = "collect"
    /\ Len(received) < MaxStream
    /\ \E chunk \in StreamChunks :
         /\ received' = Append(received, chunk)
         /\ tokens_consumed' = collect_tokens(tokens_consumed, chunk)
         /\ collecting' = collect_chunk(collecting, chunk)
    /\ UNCHANGED <<branch, reading, collected, relayed, nonStreamVars>>

\* The stream ends in collect_response: the open call is finalized and the
\* function returns.
collect_ends ==
    /\ reading = "open"
    /\ branch = "collect"
    /\ reading' = "ended"
    /\ collecting' = collect_finalize(collecting)
    /\ collected' = collect_return(collect_finalize(collecting))
    /\ UNCHANGED <<branch, received, relayed, tokens_consumed, nonStreamVars>>

\* One iteration of the plain loop.
chunk_relayed ==
    /\ reading = "open"
    /\ branch = "plain"
    /\ Len(received) < MaxStream
    /\ \E chunk \in StreamChunks :
         /\ received' = Append(received, chunk)
         /\ tokens_consumed' = stream_tokens(tokens_consumed, chunk)
         /\ relayed' = relay_chunk(relayed, chunk)
    /\ UNCHANGED <<branch, reading, collecting, collected, nonStreamVars>>

\* The stream ends in the plain loop.
relay_ends ==
    /\ reading = "open"
    /\ branch = "plain"
    /\ reading' = "ended"
    /\ UNCHANGED <<branch, received, collecting, collected, relayed, tokens_consumed,
                   nonStreamVars>>

NextStream ==
    \/ stream_opened
    \/ chunk_collected
    \/ collect_ends
    \/ chunk_relayed
    \/ relay_ends

SpecStream == InitStream /\ [][NextStream]_vars

\* ------------------------------------------------------------ properties
Pooled == Range(_wrappers)
Evicted == Range(wrappers) \ Range(_wrappers)

\* In this step caller p ran select_wrapper and got a backend: in __getattr__,
\* or at the head of an iteration of the retry loop.
Selects(p) ==
    \/ pc[p] \in {"idle", "done"} /\ pc'[p] = "bound"
    \/ pc[p] = "bound" /\ pc'[p] \in {"sleep", "call"}
    \/ pc[p] = "call" /\ pc'[p] \in {"sleep", "call"} /\ i'[p] = i[p] + 1

\* In this step a backend call of caller p returned.
Succeeds(p) == pc[p] = "call" /\ pc'[p] = "done" /\ reply'[p].kind = "ok"

\* C1: a call makes at most max_retries + 1 backend invocations, whatever backends
\* are selected and whatever fails.
C1_AttemptsBounded == \A p \in Procs : attempts[p] <= max_retries + 1

\* A call that used its whole budget, on more than one attempt, and failed.
C1_Witness ==
    \E p \in Procs :
        /\ max_retries >= 1
        /\ pc[p] = "done"
        /\ attempts[p] = max_retries + 1
        /\ outcome[p].kind = "error"

\* C2: a call that ends without a successful attempt raises the error of its
\* last backend attempt, and nothing else.
C2_RaisesLastAttemptsError ==
    \A p \in Procs :
        (pc[p] = "done" /\ attempts[p] >= 1 /\ outcome[p].kind # "ok")
            => outcome[p] = reply[p]

\* C3: the no-backends error is raised only by a call that made no backend
\* attempt, on an empty pool.
C3_NoWrappersMeansNoAttempt ==
    \A p \in Procs :
        (pc[p] = "done" /\ outcome[p] = NoWrappers)
            => (attempts[p] = 0 /\ _wrappers = <<>>)

\* C4: the pool only shrinks, stays within the constructor's list, and a
\* selection is always a backend that is pooled when it is made, so an evicted
\* backend is never pooled or selected again.
C4_EvictionPermanent ==
    [][/\ Range(_wrappers') \subseteq Range(_wrappers)
       /\ Range(_wrappers') \subseteq Range(wrappers')
       /\ \A p \in Procs : Selects(p) => selection'[p] \in Range(_wrappers')]_vars

\* The sole caller is in the first iteration of a call, so it selected after the
\* eviction made in an earlier call.
C4_Witness ==
    /\ Evicted # {}
    /\ \A p \in Procs \ {SoleCaller} : pc[p] = "idle"
    /\ pc[SoleCaller] \in {"sleep", "call"}
    /\ i[SoleCaller] = 1
    /\ selection[SoleCaller] \in Pooled

\* C5, as claimed: a pooled backend has fewer than max_retries consecutive
\* failures behind it, the failure that makes them max_retries evicts it.
C5_EvictedAtStreakMaxRetries ==
    max_retries >= 1 => \A b \in Pooled : streak[b] < max_retries

\* C5, amended: a pooled backend leaves the pool exactly in the step that is its
\* (max_retries + 1)-th consecutive failure; its count is its streak minus one.
C5_EvictedAtStreakMaxRetriesPlusOne ==
    [][\A b \in Pooled :
          /\ (b \notin Range(_wrappers'))
                <=> (streak'[b] = streak[b] + 1 /\ streak'[b] = max_retries + 1)
          /\ _backoffs[b] = streak[b] - 1]_vars

\* A backend evicted by its (max_retries + 1)-th consecutive failure.
C5_Witness ==
    /\ max_retries >= 1
    /\ \E b \in Evicted : streak[b] = max_retries + 1

\* C6: a selection is a pooled backend with the least next-allowed value of the
\* pool, the first such in pool order; the counts play no part.
C6_SelectsFirstMinimum ==
    [][\A p \in Procs : Selects(p) =>
          \E k \in 1..Len(_wrappers') :
              /\ selection'[p] = _wrappers'[k]
              /\ \A j \in 1..Len(_wrappers') :
                     next_allowed'[_wrappers'[j]] >= next_allowed'[_wrappers'[k]]
              /\ \A j \in 1..(k - 1) :
                     next_allowed'[_wrappers'[j]] > next_allowed'[_wrappers'[k]]]_vars

\* A caller whose selection is the second backend of the pool, the first having
\* a later next-allowed time.
C6_Witness ==
    \E p \in Procs :
        /\ pc[p] \in {"bound", "call"}
        /\ Len(_wrappers) = 2
        /\ selection[p] = _wrappers[2]
        /\ next_allowed[_wrappers[2]] < next_allowed[_wrappers[1]]

\* C7: when an attempt succeeds the backend's count becomes -1, the call returns
\* the attempt's result and ends, no other count and not the pool changes, and
\* the ended call makes no further attempt (until its caller calls anew).
C7_SuccessResetsAndReturns ==
    [][\A p \in Procs :
          /\ Succeeds(p) =>
                /\ outcome'[p] = reply'[p]
                /\ DOMAIN _backoffs' = DOMAIN _backoffs \cup {selection[p]}
                /\ _backoffs'[selection[p]] = -1
                /\ \A b \in DOMAIN _backoffs \ {selection[p]} :
                       _backoffs'[b] = _backoffs[b]
                /\ _wrappers' = _wrappers
                /\ attempts'[p] = attempts[p]
          /\ (pc[p] = "done" /\ calls' = calls) =>
                /\ pc'[p] = "done"
                /\ outcome'[p] = outcome[p]
                /\ attempts'[p] = attempts[p]]_vars

\* The only backend failed once and then succeeded in the same call: its count
\* is healthy again.
C7_Witness ==
    \E p \in Procs :
        /\ Len(wrappers) = 1
        /\ pc[p] = "done"
        /\ outcome[p].kind = "ok"
        /\ attempts[p] = 2
        /\ _backoffs[wrappers[1]] = -1

\* C8: no caller ever gets an error of the pool's own bookkeeping: only a
\* backend's error or the no-backends error.
C8_NoBookkeepingError ==
    \A p \in Procs : outcome[p] \notin {ValueError, KeyError, TypeError}

\* C9: the backends with a backoff entry are exactly the pooled backends.
C9_BackoffEntriesArePooled == DOMAIN _backoffs = Pooled

\* C10: a count is lowered, or an entry created, only by a successful call on
\* that backend, and only to -1.
C10_OnlySuccessLowers ==
    [][\A b \in DOMAIN _backoffs' :
          (b \notin DOMAIN _backoffs \/ _backoffs'[b] < _backoffs[b])
              => /\ _backoffs'[b] = -1
                 /\ \E p \in Procs : Succeeds(p) /\ selection[p] = b]_vars

\* A caller sleeps before retrying a backend whose count another caller's
\* success has meanwhile reset.
C10_Witness ==
    \E p, q \in Procs :
        /\ pc[p] = "sleep"
        /\ selection[p] \in DOMAIN _backoffs
        /\ _backoffs[selection[p]] = -1
        /\ pc[q] = "done"
        /\ outcome[q].kind = "ok"

\* C11: every operation of the pool goes through the retry loop: a call that
\* ended with a backend's error made max_retries + 1 attempts, and every
\* failure since a pooled backend's last success is in its count.
C11_EveryOperationRetried ==
    /\ \A p \in Procs :
         (pc[p] = "done" /\ outcome[p].kind = "error") => attempts[p] = max_retries + 1
    /\ \A b \in Pooled \cap DOMAIN _backoffs : _backoffs[b] = streak[b] - 1

\* C12: the pool's common capability type is the one of the backends that are
\* pooled now.
C12_TypeOfPooledBackends ==
    Len(_wrappers) > 0 => get_type = find_greatest_common_ancestor(_wrappers)

\* C28: a call cancelled in its backoff sleep or in its backend call ends on
\* its next step with the cancellation as its outcome, without another
\* attempt and with the counts and the pool as they were.
C28_CancellationEndsCall ==
    [][\A p \in Procs :
          (pc[p] \in {"sleep_cancelled", "call_cancelled"} /\ pc'[p] # pc[p])
              => /\ pc'[p] = "done"
                 /\ outcome'[p] = CancelledError
                 /\ attempts'[p] = attempts[p]
                 /\ _backoffs' = _backoffs
                 /\ _wrappers' = _wrappers]_vars

\* A call cancelled on a retry, the backend having failed once already.
C28_Witness ==
    \E p \in Procs :
        /\ pc[p] = "done"
        /\ outcome[p] = CancelledError
        /\ attempts[p] = 2
        /\ \E b \in DOMAIN _backoffs : _backoffs[b] = 0

\* Caller p begins an attempt: an iteration of its retry loop that selects a
\* backend and goes on to sleep or to call it.
BeginsAttempt(p) == i'[p] = i[p] + 1

\* C29: an attempt sleeps before its backend call exactly when the count of
\* the backend it selected is 0 or more as it is selected; on a healthy
\* backend (count -1) the call is started at once; and a sleep ends in the
\* backend call of the same attempt on the same backend.
C29_SleepIffDegraded ==
    [][\A p \in Procs :
          /\ BeginsAttempt(p) =>
                /\ pc'[p] \in {"sleep", "call"}
                /\ selection'[p] \in DOMAIN _backoffs'
                /\ pc'[p] = "sleep" <=> _backoffs'[selection'[p]] >= 0
                /\ pc'[p] = "call" <=> _backoffs'[selection'[p]] = -1
          /\ (pc'[p] = "sleep" /\ pc[p] # "sleep") => BeginsAttempt(p)
          /\ (pc[p] = "sleep" /\ pc'[p] # "sleep") =>
                /\ pc'[p] = "call"
                /\ selection'[p] = selection[p]
                /\ i'[p] = i[p]
                /\ attempts'[p] = attempts[p] + 1]_vars

\* A caller sleeps before its second attempt, on the backend that failed it.
C29_Witness ==
    \E p \in Procs :
        /\ pc[p] = "sleep"
        /\ attempts[p] = 1
        /\ i[p] = 2
        /\ _backoffs[selection[p]] = 0

\* C30: a caller's backend call is started only on a pooled backend: a caller
\* that wakes from its backoff sleep does not call the backend it selected
\* when that backend was evicted while it slept.
C30_NoCallOnEvictedBackend ==
    [][\A p \in Procs :
          (pc'[p] = "call" /\ attempts'[p] = attempts[p] + 1)
              => selection'[p] \in Range(_wrappers')]_vars

\* C31: every pooled backend has a failure count, and the count is at least
\* -1 and below max_retries.
C31_CountsOfPooledInRange ==
    \A b \in Pooled :
        /\ b \in DOMAIN _backoffs
        /\ _backoffs[b] \in -1..(max_retries - 1)

\* A pooled backend one failure away from eviction, after a failed call.
C31_Witness ==
    \E b \in Pooled, p \in Procs :
        /\ max_retries = 1
        /\ _backoffs[b] = max_retries - 1
        /\ reply[p].kind = "error"

\* The backends that always fail are gone from the pool.
FailingGone == Pooled \subseteq reliable

\* C32: with backends that always succeed, one at least, and the others always
\* failing, a sequence of calls by one caller comes to a call that succeeds;
\* no backend that always succeeds is evicted; and every call begun once the
\* failing backends are gone succeeds on its first attempt.
C32_ReliableBackendServes ==
    /\ <>(outcome[SoleCaller].kind = "ok")
    /\ [](reliable \subseteq Pooled)
    /\ []((FailingGone /\ pc[SoleCaller] = "bound")
            => [](pc[SoleCaller] = "done"
                    => (outcome[SoleCaller].kind = "ok" /\ attempts[SoleCaller] = 1)))

\* A call that failed on the failing backend and evicted it, then a call that
\* succeeded on its first attempt.
C32_Witness ==
    /\ Evicted # {}
    /\ FailingGone
    /\ calls >= 2
    /\ pc[SoleCaller] = "done"
    /\ outcome[SoleCaller].kind = "ok"
    /\ attempts[SoleCaller] = 1
    /\ \E b \in Evicted : streak[b] = max_retries + 1

\* ------------------------------------------------ properties of hook layers
\* The key has no lower-case letter.
IsUpperCase(key) == \A n \in 1..Len(key) : key[n] \notin {"q", "t"}

\* How many times `e` has happened at level k in this call.
Count(e, k) == Cardinality({n \in 1..Len(log) : log[n].ev = e /\ log[n].layer = k})

\* The chunks the backend's stream has yielded, in order.
Emitted ==
    LET es == SelectSeq(log, LAMBDA x : x.ev = "chunk")
    IN [n \in 1..Len(es) |-> es[n].data]

\* The chunks layer k has yielded, in order.
YieldedBy(k) ==
    LET es == SelectSeq(log, LAMBDA x : x.ev = "yield" /\ x.layer = k)
    IN [n \in 1..Len(es) |-> es[n].data]

\* The chunks of cs one after the other, as one string.
RECURSIVE Concatenation(_)
Concatenation(cs) ==
    IF cs = <<>> THEN <<>>
    ELSE Concatenation(SubSeq(cs, 1, Len(cs) - 1)) \o cs[Len(cs)]

\* What the backend returned or raised, or how its stream ended.
Replied == {log[n].data : n \in {m \in 1..Len(log) : log[m].ev = "reply"}}

\* C13: a layer's partition puts a key in PromptArgs iff the key is in upper
\* case and every other key in ApiArgs; the parts are disjoint, hold every
\* keyword with its value, and the default hook's merge, which the layer passes
\* on, is the mapping the layer was called with.
C13_PartitionByCase ==
    \A k \in 1..Len(args) :
        k <= Len(hooks) =>
            LET kw == args[k]
                pa == prompt_args(kw)
                aa == api_args(kw)
            IN /\ \A key \in DOMAIN kw : key \in DOMAIN pa <=> IsUpperCase(key)
               /\ \A key \in DOMAIN kw : key \in DOMAIN aa <=> ~IsUpperCase(key)
               /\ DOMAIN pa \cap DOMAIN aa = {}
               /\ DOMAIN pa \cup DOMAIN aa = DOMAIN kw
               /\ \A key \in DOMAIN pa : pa[key] = kw[key]
               /\ \A key \in DOMAIN aa : aa[key] = kw[key]
               /\ (hooks[k] = "default" /\ Len(args) > k) => args[k + 1] = kw

\* A default layer has passed on keywords of every sort: upper case with an
\* underscore, the underscore alone, lower case, and mixed case.
C13_Witness ==
    /\ Len(hooks) >= 1
    /\ hooks[1] = "default"
    /\ Len(args) >= 2
    /\ DOMAIN args[1] = Keys
    /\ DOMAIN prompt_args(args[1]) = {<<"Q", "_">>, <<"_">>}
    /\ args[1][<<"t">>] # args[1][<<"T", "t">>]

\* C14: a layer runs its before hook once and calls its inner surface once,
\* with the same operation and exactly the mapping its before hook gave; when
\* the call is over the backend operation has been called exactly once, and
\* when it ended normally every layer has run one before and one after step.
C14_OneInnerCallPerLayer ==
    /\ \A k \in 1..Len(hooks) :
         /\ Count("before", k) <= 1
         /\ Count("inner", k) = Count("before", k)
         /\ Count("after", k) <= 1
         /\ (level > k \/ phase \in {"running", "chunk", "return", "done"}) => Count("inner", k) = 1
    /\ Count("backend", Backend) <= 1
    /\ phase \in {"running", "chunk", "return", "done"} => Count("backend", Backend) = 1
    /\ \A n, m \in 1..Len(log) :
         (log[n].ev = "inner" /\ log[m].ev = "before" /\ log[m].layer = log[n].layer)
             => /\ log[n].data.kwargs = log[m].data
                /\ log[n].data.op = op
                /\ args[log[n].layer + 1] = log[m].data
    /\ \A n \in 1..Len(log) :
         log[n].ev = "backend" => log[n].data = [op |-> op, kwargs |-> args[Backend]]
    /\ (phase = "done" /\ returned.kind \in {"ok", "end"})
           => \A k \in 1..Len(hooks) : Count("before", k) = 1 /\ Count("after", k) = 1

\* A call through two layers, the outer one rewriting the arguments, has ended
\* normally.
C14_Witness ==
    /\ phase = "done"
    /\ returned.kind \in {"ok", "end"}
    /\ Len(hooks) >= 2
    /\ hooks[1] = "rewrite"
    /\ args[2] # args[1]

\* C15: through a stack of default layers of any depth the backend gets the
\* caller's operation and keywords, and the caller gets what the backend
\* returned or raised and, of a stream, the chunks the backend yielded.
C15_IdentityLaw ==
    (\A k \in 1..Len(hooks) : hooks[k] = "default")
        => /\ \A n \in 1..Len(log) :
                log[n].ev = "backend" => log[n].data = [op |-> op, kwargs |-> kwargs]
           /\ phase = "done" => Replied = {returned} /\ chunks = Emitted

\* A stream of several chunks has passed through several default layers, with
\* keywords of both parts.
C15_Witness ==
    /\ phase = "done"
    /\ Len(hooks) >= 2
    /\ \A k \in 1..Len(hooks) : hooks[k] = "default"
    /\ op = "query_stream"
    /\ Len(chunks) >= 2
    /\ chunks[1] # chunks[2]
    /\ returned = EndOfStream
    /\ DOMAIN prompt_args(kwargs) # {}
    /\ DOMAIN api_args(kwargs) # {}

\* C16: of a stream, every layer and the caller get the backend's chunks
\* unchanged and in order, each before the backend yields the next; a layer's
\* after hook is resumed at most once, after the backend's stream has ended and
\* the layer has yielded its last chunk, with the chunks joined in order, and
\* once if the call ends normally.
C16_StreamThroughLayer ==
    op = "query_stream" =>
        /\ \A k \in 1..Len(hooks) :
             /\ YieldedBy(k) = result[k]
             /\ Len(result[k]) <= Len(Emitted)
             /\ result[k] = SubSeq(Emitted, 1, Len(result[k]))
             /\ Len(Emitted) - Len(result[k]) <= 1
             /\ Count("after", k) <= 1
        /\ Len(chunks) <= Len(Emitted)
        /\ chunks = SubSeq(Emitted, 1, Len(chunks))
        /\ Len(Emitted) - Len(chunks) <= 1
        /\ \A n \in 1..Len(log) :
             log[n].ev = "after"
                 => /\ \E m \in 1..(n - 1) : log[m].ev = "reply" /\ log[m].data = EndOfStream
                    /\ \A m \in (n + 1)..Len(log) : log[m].ev \notin {"chunk", "yield"}
                    /\ result[log[n].layer] = Emitted
                    /\ log[n].data = Concatenation(Emitted)
        /\ phase \in {"return", "done"} => chunks = Emitted
        /\ (phase = "done" /\ returned = EndOfStream)
               => \A k \in 1..Len(hooks) : Count("after", k) = 1

\* Two layers have passed on two different chunks and their after hooks have
\* been resumed.
C16_Witness ==
    /\ op = "query_stream"
    /\ phase = "done"
    /\ Len(hooks) >= 2
    /\ Len(chunks) >= 2
    /\ chunks[1] # chunks[2]
    /\ \A k \in 1..Len(hooks) : Count("after", k) = 1

\* C17: when the backend has answered and the innermost hook that does other
\* than end on being resumed raises an error, the caller gets that error, not
\* the result; when every hook ends on being resumed, the caller gets the result.
C17_AfterPhase ==
    (phase = "done" /\ \E r \in Replied : r.kind \in {"ok", "end"})
        => LET other == {k \in 1..Len(hooks) : hooks[k] \notin {"default", "rewrite"}}
               last == CHOOSE k \in other : \A j \in other : j <= k
           IN IF other = {} THEN Replied = {returned}
              ELSE /\ hooks[last] = "raises" => returned = HookError(last)
                   /\ hooks[last] = "raises_runtime" => returned = RuntimeError("None")

\* The after hook of the inner of two layers has raised a RuntimeError of its
\* own and the caller has got it.
C17_Witness ==
    /\ phase = "done"
    /\ Len(hooks) >= 2
    /\ hooks[Len(hooks)] = "raises_runtime"
    /\ Count("after", Len(hooks)) = 1
    /\ Count("after", 1) = 0
    /\ returned = RuntimeError("None")

\* The places in the log at which `e` happened at level k.
Places(e, k) == {n \in 1..Len(log) : log[n].ev = e /\ log[n].layer = k}

\* The places in the log at which the backend was called, and at which its
\* call was over: it returned, it raised or its stream ended.
Called == {n \in 1..Len(log) : log[n].ev = "backend"}
Completed == {n \in 1..Len(log) : log[n].ev = "reply"}

\* C33: in a call through stacked layers a layer's before hook runs after the
\* before hooks of the layers outside it; the backend is called after the
\* before hook of every layer; a layer's after hook runs after the backend's
\* call is over and after the after hooks of the layers inside it; no after
\* step comes before the backend call.
C33_PhasesOrdered ==
    /\ \A k \in 1..Len(hooks) : \A n \in Places("before", k) :
         \A j \in 1..(k - 1) : \E m \in Places("before", j) : m < n
    /\ \A n \in Called :
         \A k \in 1..Len(hooks) : \E m \in Places("before", k) : m < n
    /\ \A k \in 1..Len(hooks) : \A n \in Places("after", k) :
         /\ \E m \in Called : m < n
         /\ \E m \in Completed : m < n
         /\ \A j \in (k + 1)..Len(hooks) : \E m \in Places("after", j) : m < n
         /\ \A m \in Called \cup Completed : m < n
         /\ \A j \in 1..Len(hooks) : \A m \in Places("before", j) : m < n

\* A streamed call through two layers is over, both after hooks having run,
\* the inner one first.
C33_Witness ==
    /\ Len(hooks) = 2
    /\ op = "query_stream"
    /\ phase = "done"
    /\ chunks # <<>>
    /\ \E n \in Places("after", 2), m \in Places("after", 1) : n < m

\* In this step the inner call of layer `level` raises into the layer.
InnerCallRaises ==
    /\ phase = "return"
    /\ level >= 1
    /\ value.kind \notin {"ok", "end"}
    /\ level' # level

\* C34: when the inner call of a layer raises, the layer's before hook has run
\* once, its after hook is not resumed, neither then nor earlier in the call,
\* and the layer's caller gets the error the inner call raised.
C34_InnerErrorPassesThrough ==
    [][InnerCallRaises =>
          /\ Count("before", level) = 1
          /\ Count("after", level) = 0
          /\ log' = log
          /\ level' = level - 1
          /\ value' = value]_vars

\* The backend raised under two layers: the caller has its error and no after
\* hook has run.
C34_Witness ==
    /\ Len(hooks) = 2
    /\ phase = "done"
    /\ returned = BackendError(1)
    /\ \A k \in 1..2 : Count("before", k) = 1 /\ Count("after", k) = 0

\* C35: when every hook of the stack either ends on being resumed or follows
\* the documented protocol of two yields, and the backend has answered, the
\* finished call gives the caller what the backend returned, or the end of its
\* stream, and no error.
C35_TwoYieldHookCompletes ==
    ( /\ phase = "done"
      /\ \A k \in 1..Len(hooks) : hooks[k] \in {"default", "rewrite", "two_yield"}
      /\ \E k \in 1..Len(hooks) : hooks[k] = "two_yield"
      /\ \E r \in Replied : r.kind \in {"ok", "end"} )
        => /\ returned.kind \in {"ok", "end"}
           /\ Replied = {returned}

\* ------------------------------------------- properties of the orchestrator
\* The backend's latest turn.
LastTurn == history[Len(history)]

\* C18: without tools and without streaming the query goes on after a turn only
\* when the turn is tool_calls, so that one round-trip is made when the first
\* turn is not; the turn that ends it decides: stop or eos yields the message
\* content once, length raises the context-window error, content_filter the
\* policy error, any other value but tool_calls the unexpected-finish error,
\* and the errors come with nothing yielded.
C18_FinishReasonMapping ==
    (at \in {"create", "done"} /\ ~config.stream /\ ~config.tools) =>
        /\ \A n \in 1..(Len(history) - 1) : history[n].finish_reason = "tool_calls"
        /\ at = "create" =>
             /\ yielded = <<>>
             /\ raised = None
             /\ \A n \in 1..Len(history) : history[n].finish_reason = "tool_calls"
        /\ at = "done" =>
             /\ history[1].finish_reason # "tool_calls" => Len(history) = 1
             /\ LastTurn.finish_reason \in {"stop", "eos"}
                    => yielded = <<LastTurn.content>> /\ raised = None
             /\ LastTurn.finish_reason = "length"
                    => yielded = <<>> /\ raised = ContextWindow
             /\ LastTurn.finish_reason = "content_filter"
                    => yielded = <<>> /\ raised = ContentFiltered
             /\ LastTurn.finish_reason \notin {"stop", "eos", "length", "content_filter", "tool_calls"}
                    => yielded = <<>> /\ raised = UnexpectedFinish

\* A query without tools and streaming has ended on its first turn, an eos turn
\* with text.
C18_Witness ==
    /\ at = "done"
    /\ ~config.stream
    /\ ~config.tools
    /\ Len(history) = 1
    /\ LastTurn.finish_reason = "eos"
    /\ yielded = <<<<"h", "i">>>>

\* C19: on every path a length turn makes the query raise the context-window
\* error and a content_filter turn the policy error.
C19_FatalFinishOnEveryPath ==
    at = "done" =>
        /\ LastTurn.finish_reason = "length" => raised = ContextWindow
        /\ LastTurn.finish_reason = "content_filter" => raised = ContentFiltered

\* C20: with tools, a tool_calls turn beyond the limit, which is turn number
\* call_limit + 1, raises the limit error with no tool called and nothing
\* appended; every other tool_calls turn appends its round of messages and
\* leads to the next round-trip; and the stop turn after n tool_calls turns
\* ends the query with its content, n rounds having been appended.
C20_ToolCallLimit ==
    (at \in {"create", "done"} /\ config.tools) =>
        /\ \A n \in 1..Len(history) :
             history[n].finish_reason = "tool_calls" =>
                 IF config.call_limit # NoLimit /\ n > config.call_limit
                   THEN /\ n = config.call_limit + 1
                        /\ history[n].raised = ToolCallLimit
                        /\ history[n].ran = <<>>
                        /\ history[n].after = history[n].before
                   ELSE /\ history[n].raised = None
                        /\ Len(history[n].ran) = history[n].requested
                        /\ Len(history[n].after) = Len(history[n].before) + history[n].requested + 1
                        /\ (n = Len(history) => at = "create")
        /\ (at = "done" /\ LastTurn.finish_reason = "stop")
               => /\ yielded = <<LastTurn.content>>
                  /\ raised = None
                  /\ \A n \in 1..(Len(history) - 1) : history[n].finish_reason = "tool_calls"

\* The turns of the history on which a tool round took place: the conversation
\* grew by the assistant's message at least.
ToolRounds == {n \in 1..Len(history) : history[n].after # history[n].before}

\* The calls of create made so far by the query.
RoundTrips == Len(history) + (IF at = "create" THEN 1 ELSE 0)

\* The limit left after the n-th turn of the history.
LimitAfter(n) == IF n < Len(history) THEN history[n + 1].limit ELSE call_limit

\* C21: with a call_limit of L, every tool round lowers the limit left by one,
\* however many tool calls it holds; the limit left is never below zero; a
\* query makes at most L tool rounds and at most L + 1 calls of create.
C21_BudgetCountsRounds ==
    config.call_limit # NoLimit =>
        /\ call_limit >= 0
        /\ \A n \in 1..Len(history) :
             LimitAfter(n) = history[n].limit - (IF n \in ToolRounds THEN 1 ELSE 0)
        /\ call_limit = config.call_limit - Cardinality(ToolRounds)
        /\ Cardinality(ToolRounds) <= config.call_limit
        /\ RoundTrips <= config.call_limit + 1

\* A round of two tool calls took one off the limit, and the limit is used up
\* with the last call of create under way.
C21_Witness ==
    /\ config.call_limit = 1
    /\ at = "create"
    /\ Len(history) = 1
    /\ history[1].requested = 2
    /\ 1 \in ToolRounds
    /\ call_limit = 0

\* The messages the n-th turn of the history added to the conversation.
Appended(n) ==
    SubSeq(history[n].after, Len(history[n].before) + 1, Len(history[n].after))

\* C22: in a tool round nothing that goes wrong with a tool call reaches the
\* caller: the round raises nothing, every requested call has its tool message
\* in the conversation, with the error payload when the call failed, and
\* create is called again.
C22_ToolFailureNotFatal ==
    \A n \in ToolRounds :
        LET requests == Appended(n)[1].tool_calls
        IN /\ history[n].raised = None
           /\ Len(Appended(n)) = Len(requests) + 1
           /\ \A j \in 1..Len(requests) :
                /\ Appended(n)[j + 1].role = "tool"
                /\ Appended(n)[j + 1].tool_call_id = requests[j].id
                /\ (requests[j].name \notin Registered \/ json_loads_raises(requests[j].arguments))
                     => Appended(n)[j + 1].content = "Error, did not complete successfully"
           /\ n = Len(history) => at = "create"

\* C23: a tool round on a turn asking for k tool calls appends k + 1 messages:
\* the assistant's message with the k requests, then a tool message for each
\* call in the order of the requests, with the call's id and name; what was in
\* the conversation stays in place, and the conversation so extended is what
\* the next call of create sends.
C23_MessagesOfARound ==
    \A n \in ToolRounds :
        LET k == history[n].requested
            new == Appended(n)
        IN /\ Len(new) = k + 1
           /\ new[1].role = "assistant"
           /\ Len(new[1].tool_calls) = k
           /\ \A j \in 1..k :
                /\ j + 1 <= Len(new)
                /\ new[j + 1].role = "tool"
                /\ new[j + 1].tool_call_id = new[1].tool_calls[j].id
                /\ new[j + 1].name = new[1].tool_calls[j].name
           /\ SubSeq(history[n].after, 1, Len(history[n].before)) = history[n].before
           /\ IF n < Len(history) THEN history[n + 1].before = history[n].after
              ELSE messages = history[n].after

\* The tool call fragments of a streamed turn, in arrival order.
RECURSIVE FragmentsOf(_)
FragmentsOf(stream) ==
    IF stream = <<>> THEN <<>> ELSE Head(stream).tool_calls \o FragmentsOf(Tail(stream))

\* The tool calls that a sequence of fragments spells, after `spelled`: a
\* fragment with an id other than the last call's opens a call, any other
\* fragment adds its argument text to the last call.
RECURSIVE Spelled(_, _)
Spelled(spelled, fragments) ==
    IF fragments = <<>> THEN spelled
    ELSE LET fr == Head(fragments)
             last == Len(spelled)
         IN IF fr.id # NoString /\ (last = 0 \/ spelled[last].id # fr.id)
              THEN Spelled(Append(spelled, fr), Tail(fragments))
            ELSE IF last = 0 THEN Spelled(spelled, Tail(fragments))
            ELSE Spelled([spelled EXCEPT ![last].arguments = @ \o fr.arguments],
                         Tail(fragments))

\* The turn a stream spells, as create returns it when it does not stream.
ResponseOf(stream) ==
    [finish_reason |-> FinishOf(stream), content |-> TextOf(stream),
     tool_calls |-> IF FinishOf(stream) = "tool_calls"
                      THEN Spelled(<<>>, FragmentsOf(stream)) ELSE <<>>]

\* C24: a streaming query with tools yields once, when its last round-trip is
\* over, and every turn of it yields, raises and leaves of the limit what the
\* branch without streaming does on the same turn.
C24_StreamingWithToolsAsWithout ==
    (config.stream /\ config.tools) =>
        /\ Len(yielded) <= 1
        /\ yielded # <<>> => (at = "done" /\ raised = None)
        /\ (at = "done" /\ raised = None) => Len(yielded) = 1
        /\ \A n \in 1..Len(history) :
             LET t == history[n]
                 o == after_create(ResponseOf(t.chunks), t.limit, t.before, t.runs,
                                   Registered)
             IN /\ o.raised = t.raised
                /\ o.yielded = t.yielded
                /\ o.call_limit = LimitAfter(n)

\* collect_response has read the stream to its end.
Collected == branch = "collect" /\ reading = "ended"

\* The tool calls the received fragments spell.
Wanted == Spelled(<<>>, FragmentsOf(received))

\* C25: when collect_response has read a stream, the argument text of every
\* finalized tool call is the argument text of the call's fragments (the one
\* that brought its id and those after it with the same id or none), each
\* taken once, in the order of arrival.
C25_ArgumentsReconstructed ==
    Collected =>
        \A j \in DOMAIN collecting.tool_calls \cap DOMAIN Wanted :
            collecting.tool_calls[j].arguments = Wanted[j].arguments

\* C26: the accumulator open while the stream is read is the one of the id
\* seen last and the calls finalized before it are those of the earlier runs
\* of fragments under one id; at the end of the stream the finalized calls
\* are one per run, in the order the runs began, with the run's id and name.
C26_OneCallPerRun ==
    LET ids(tcs) == [j \in DOMAIN tcs |-> <<tcs[j].id, tcs[j].name>>]
        runs == Wanted
    IN /\ (branch = "collect" /\ reading = "open") =>
            /\ ids(collecting.tool_calls) = ids(SubSeq(runs, 1, Len(runs) - 1))
            /\ collecting.current_tool_id =
                 (IF runs = <<>> THEN NoString ELSE runs[Len(runs)].id)
       /\ Collected => ids(collecting.tool_calls) = ids(runs)

\* Three runs, the first id coming back after another: three calls.
C26_Witness ==
    /\ Collected
    /\ Len(collecting.tool_calls) = 3
    /\ collecting.tool_calls[1].id = "c1"
    /\ collecting.tool_calls[2].id = "c2"
    /\ collecting.tool_calls[3].id = "c1"

\* The token estimate after a sequence of chunks, from `tokens`: a chunk with
\* usage totals makes the estimate that total, any other chunk adds one.
RECURSIVE Estimate(_, _)
Estimate(tokens, stream) ==
    IF stream = <<>> THEN tokens
    ELSE Estimate(IF Head(stream).usage # None THEN Head(stream).usage.total_tokens
                  ELSE tokens + 1,
                  Tail(stream))

\* C27: in the plain loop and in collect_response alike, the token estimate
\* after the chunks received is the total of the last chunk with usage plus
\* one for every chunk after it, or one per chunk when none had usage.
C27_TokenEstimate ==
    branch \in {"plain", "collect"} => tokens_consumed = Estimate(0, received)

\* The texts of the chunks that carry one, in the order of the chunks.
RECURSIVE TextsOf(_)
TextsOf(cs) ==
    IF cs = <<>> THEN <<>>
    ELSE LET rest == TextsOf(SubSeq(cs, 1, Len(cs) - 1))
             c == cs[Len(cs)]
         IN IF c.content = <<>> THEN rest ELSE rest \o <<c.content>>

\* C36: with streaming on and no tools, what the query has yielded is the text
\* of every chunk received that carries text, as it came and in the order it
\* came, one yield for each such chunk and none for a chunk without text.
C36_PlainStreamRelaysText ==
    branch = "plain"
        => /\ relayed = TextsOf(received)
           /\ Len(relayed) = Cardinality({n \in 1..Len(received) : received[n].content # <<>>})
           /\ \A n \in 1..Len(relayed) : relayed[n] # <<>>

\* A plain stream has ended after two different texts with a chunk without
\* text between them.
C36_Witness ==
    /\ branch = "plain"
    /\ reading = "ended"
    /\ Len(received) = 3
    /\ received[1].content = <<"i">>
    /\ received[2].content = <<>>
    /\ received[3].content = <<"h">>
    /\ relayed = <<<<"i">>, <<"h">>>>

====
